---------------------------- MODULE Spec2Model ----------------------------
(***************************************************************************)
(* dormant_users.py: for every configured GitHub organization, page        *)
(* through its repositories, their branches and each branch's commit /     *)
(* issue / pull-request history, keep the latest timestamp per login, then *)
(* page through the members and write a CSV report.                        *)
(*                                                                         *)
(* One action is one run_query call together with everything the program   *)
(* does until the next call (or until it stops).  The server is the        *)
(* environment: every call draws its response from a bounded set.          *)
(***************************************************************************)
EXTENDS Integers, Sequences, FiniteSets, TLC

\* ------------------------------------------------------------- bounds
\* The server answers at most MaxPages calls of one traversal with
\* hasNextPage = true-or-false; the MaxPages-th answer is a last page.
MaxPages == 2
\* A page of a bounded listing holds at most MaxNodes nodes.
MaxNodes == 2
\* An organization / repository lists at most MaxItems names.
MaxItems == 2

\* ------------------------------------------------- program constants
\* `if repo_counter % 100 == 0`
PauseEvery == 100
\* `repositories(first: 100, ...)`: the largest page the server may send
PageSize == 100

\* -------------------------------------------------------------- data
Null == "null"
NoUser == "nouser"
Logins == {"a", "b"}
\* endCursor values the server of universe e hands out
Cursors(e) == IF e = "lists" THEN {"c1", "c2"} ELSE {"c1"}
\* Wall-clock readings, in ticks of half a day.
WallClocks == {1, 2}
\* UTC offsets (ticks) a timestamp string may carry: 0 is the suffix "Z",
\* 1 is the suffix "+01:00" (a commit's author date keeps the author's zone).
Offsets == {0, 1}
\* A timestamp string "YYYY-MM-DDTHH:MM:SS<suffix>": <<wall-clock, offset>>.
Timestamps == WallClocks \X Offsets
\* The instant a timestamp string denotes.
Instant(ts) == ts[1] - ts[2]

SeqsUpTo(S, n) == UNION {[1..k -> S] : k \in 0..n}

\* Python's str `<` on two timestamp strings: the 19 wall-clock characters
\* compare as the wall-clock does, then the suffix ("+01:00" < "Z").
SuffixRank(off) == IF off = 0 THEN 1 ELSE 0
StrLess(s, t) ==
  \/ s[1] < t[1]
  \/ s[1] = t[1] /\ SuffixRank(s[2]) < SuffixRank(t[2])

\* ---------------------------------------------- dict[str, str] (ordered)
\* A Python dict: a sequence of <<key, value>> in insertion order.
Keys(d) == {d[i][1] : i \in 1..Len(d)}
Get(d, k) == d[CHOOSE i \in 1..Len(d) : d[i][1] = k][2]
Put(d, k, v) ==
  IF k \in Keys(d)
    THEN [i \in 1..Len(d) |-> IF d[i][1] = k THEN <<k, v>> ELSE d[i]]
    ELSE Append(d, <<k, v>>)
\* The mapping a dict denotes (dict equality ignores insertion order).
AsMap(d) == [k \in Keys(d) |-> Get(d, k)]

\* `if login not in activity or activity[login] < date: activity[login] = date`
KeepLatestOverwrite(d, login, date) == Put(d, login, date)
KeepLatest(d, login, date) ==
  IF login \notin Keys(d) \/ StrLess(Get(d, login), date)
    THEN Put(d, login, date)
    ELSE d

\* `for user, date in act.items(): <keep latest>` (main)
RECURSIVE MergeFrom(_, _, _)
MergeFrom(into, from, i) ==
  IF i > Len(from) THEN into
  ELSE MergeFrom(KeepLatest(into, from[i][1], from[i][2]), from, i + 1)
Merge(into, from) == MergeFrom(into, from, 1)

\* `for node in nodes: if <author>: <keep latest>` (collect_branch_activity)
RECURSIVE MergeNodes(_, _, _)
MergeNodes(activity, nodes, i) ==
  IF i > Len(nodes) THEN activity
  ELSE MergeNodes(IF nodes[i].login # NoUser
                    THEN KeepLatest(activity, nodes[i].login, nodes[i].date)
                    ELSE activity,
                  nodes, i + 1)

RECURSIVE Flatten(_)
Flatten(ss) == IF ss = <<>> THEN <<>> ELSE Head(ss) \o Flatten(Tail(ss))

\* sorted(set): ascending string order
Rank(login) == IF login = "a" THEN 1 ELSE 2
RECURSIVE Sorted(_)
Sorted(S) ==
  IF S = {} THEN <<>>
  ELSE LET m == CHOOSE x \in S : \A y \in S : Rank(x) <= Rank(y)
       IN <<m>> \o Sorted(S \ {m})

\* ----------------------------------------------------------- the server
\* Three bounded universes of server behaviour: "activity" (few names, every
\* author / timestamp), "lists" (every listing, no authors) and "bulk" (a
\* full page of repositories, nothing else of size).
FullPage == [i \in 1..PageSize |-> "r1"]

RepoPages(e, have) ==
  CASE e = "activity" -> {p \in {<<>>, <<"r1">>} : have + Len(p) <= Len(<<"r1">>)}
    [] e = "lists" -> {p \in SeqsUpTo({"r1", "r2"}, MaxNodes) : have + Len(p) <= MaxItems}
    [] OTHER -> {p \in {<<>>, <<"r1">>, FullPage} : have + Len(p) <= PageSize + 1}

BranchPages(e, have) ==
  CASE e = "activity" -> {p \in SeqsUpTo({"b1"}, MaxNodes) : have + Len(p) <= MaxItems}
    [] e = "lists" -> {p \in SeqsUpTo({"b1", "b2"}, MaxNodes) : have + Len(p) <= MaxItems}
    [] OTHER -> {p \in {<<>>, <<"b1">>} : have + Len(p) <= Len(<<"b1">>)}

MemberPages(e, have) ==
  CASE e = "bulk" -> {p \in {<<>>, <<"a">>} : have + Len(p) <= Len(<<"a">>)}
    [] OTHER -> {p \in SeqsUpTo(Logins, MaxNodes) : have + Len(p) <= MaxItems}

ActivityNode == [login : Logins \cup {NoUser}, date : Timestamps]
ActivityPages(e) ==
  CASE e = "activity" -> {<<>>} \cup {<<n>> : n \in ActivityNode}
    [] OTHER -> {<<>>}

\* What one POST may come back with.  n is the number of the call within
\* its traversal.
Failures == {[kind |-> "http_error"], [kind |-> "graphql_errors"]}
PageInfos(e, n) ==
  [hasNextPage : IF n < MaxPages THEN BOOLEAN ELSE {FALSE}, endCursor : Cursors(e)]
ListResponses(e, pagesOf, n) ==
  Failures \cup
  {[kind |-> "data", nodes |-> p, hasNextPage |-> i.hasNextPage,
    endCursor |-> i.endCursor] : p \in pagesOf, i \in PageInfos(e, n)}
\* A commit-history response may lack the ref, or the ref's target.
CommitResponses(e, n) ==
  Failures \cup
  {[kind |-> "data", ref |-> "commit", nodes |-> p, hasNextPage |-> i.hasNextPage,
    endCursor |-> i.endCursor] : p \in ActivityPages(e), i \in PageInfos(e, n)} \cup
  {[kind |-> "data", ref |-> r, nodes |-> <<>>, hasNextPage |-> FALSE,
    endCursor |-> "c1"] : r \in {"no_ref", "no_target"}}

\* run_query: raise on a bad status or an "errors" payload, else the data
run_query(resp) ==
  [raised |-> resp.kind \in {"http_error", "graphql_errors"}, data |-> resp]

\* ------------------------------------------------------ program fragments
\* get_repositories_for_org, one turn of `while has_next` after run_query
get_repositories_for_org(repos_, cursor_, data) ==
  [list |-> repos_ \o data.nodes, cursor |-> data.endCursor,
   has_next |-> data.hasNextPage]

\* get_all_branches, one turn of `while has_next` after run_query
get_all_branches_stale_cursor(branches_, cursor_, data) ==
  [list |-> branches_ \o data.nodes, cursor |-> cursor_,
   has_next |-> data.hasNextPage]
get_all_branches(branches_, cursor_, data) ==
  [list |-> branches_ \o data.nodes, cursor |-> data.endCursor,
   has_next |-> data.hasNextPage]

\* get_all_org_members_for_org, one turn of `while has_next` after run_query
get_all_org_members_for_org(members_, cursor_, data) ==
  [list |-> members_ \o data.nodes, cursor |-> data.endCursor,
   has_next |-> data.hasNextPage]

\* collect_branch_activity, one turn of the commit loop after run_query:
\* `if not ref or not ref.get("target"): break`, else fold the nodes in.
\* stop: the loop is left (break, or has_next became false).
commit_page_drops_earlier(activity_, cursor_, data) ==
  IF data.ref # "commit"
    THEN [activity |-> <<>>, cursor |-> cursor_, stop |-> TRUE]
    ELSE [activity |-> MergeNodes(activity_, data.nodes, 1),
          cursor |-> data.endCursor, stop |-> ~data.hasNextPage]
commit_page(activity_, cursor_, data) ==
  IF data.ref # "commit"
    THEN [activity |-> activity_, cursor |-> cursor_, stop |-> TRUE]
    ELSE [activity |-> MergeNodes(activity_, data.nodes, 1),
          cursor |-> data.endCursor, stop |-> ~data.hasNextPage]

\* collect_branch_activity, one turn of the issue loop / the PR loop
issue_page(activity_, cursor_, data) ==
  [activity |-> MergeNodes(activity_, data.nodes, 1),
   cursor |-> data.endCursor, stop |-> ~data.hasNextPage]
pr_page(activity_, cursor_, data) ==
  [activity |-> MergeNodes(activity_, data.nodes, 1),
   cursor |-> data.endCursor, stop |-> ~data.hasNextPage]

\* main: `except Exception as e: print("Skipping branch ...")`: the branch's
\* partial activity is a local of the call that raised and is dropped.
branch_error_merges_partial(overall, partial) == Merge(overall, partial)
branch_error(overall, partial) == overall

\* main: `if not branches: continue` leaves the loop body at once (the pause
\* test below it is not reached); otherwise the branch loop starts.
after_branches_collects_anyway(branches_) ==
  IF branches_ = <<>> THEN "commits" ELSE "branch"
after_branches(branches_) == IF branches_ = <<>> THEN "repo" ELSE "branch"

\* main: `if repo_counter % 100 == 0: time.sleep(2)`
pause_due(counter) == counter % PauseEvery = 0

\* main: never_active_users = all_members - active_tracked
never_active_all_members(all_members_, overall) == all_members_
never_active(all_members_, overall) == all_members_ \ Keys(overall)

\* main: datetime.strptime(last_iso[:19], ...).replace(tzinfo=timezone.utc):
\* the first 19 characters, read as a UTC wall-clock; the suffix is cut off.
parse_last_iso(ts) == ts[1]
\* dt.strftime("%d-%m-%Y"): the day the wall-clock falls on
strftime(dt) == dt \div Cardinality(WallClocks)

\* main: the rows written after the header
report_rows(overall, never, since) ==
  [i \in 1..Len(overall) |->
     LET dt == parse_last_iso(overall[i][2])
     IN [user |-> overall[i][1], date |-> strftime(dt),
         active |-> IF dt >= since THEN "true" ELSE "false"]]
  \o
  LET s == Sorted(never)
  IN [i \in 1..Len(s) |-> [user |-> s[i], date |-> "N/A", active |-> "never-active"]]

\* ------------------------------------------------------------------ state
\* the ORG_NAMES settings of the runs: none, or two organizations
OrgLists == {<<>>, <<"o1", "o2">>}

VARIABLES
  env,               \* the server universe of this run
  ORG_NAMES,         \* the configured organizations
  pc,                \* where main stands
  org_i,             \* index of ORG_NAME in ORG_NAMES
  since_date,        \* the cutoff (now - threshold), read once per organization
  repos,             \* get_repositories_for_org's list, then main's
  repo_counter,
  branches,          \* get_all_branches's list, then main's
  br_i,              \* index of br in branches
  overall_activity,
  activity,          \* collect_branch_activity's dict
  members,           \* get_all_org_members_for_org's list
  cursor, has_next,  \* the running traversal's locals
  never_active_users,
  rows,              \* data rows of the report written last
  reported,          \* indexes of the organizations whose report was written
  sleeps,            \* time.sleep calls in this organization's repository loop
  calls,             \* history: the cursor of every call of the traversal
  pages,             \* history: the data of every answered call of a listing
  trav,              \* history: the traversal calls and pages belong to
  merged,            \* history: a branch of this organization was merged
  listing_failed,    \* history: a get_all_branches of this organization raised
  ev                 \* history: what the last step did

vars == <<env, ORG_NAMES, pc, org_i, since_date, repos, repo_counter, branches,
          br_i, overall_activity, activity, members, cursor, has_next,
          never_active_users, rows, reported, sleeps, calls, pages, trav,
          merged, listing_failed, ev>>

InitIn(e) ==
  /\ env = e
  /\ ORG_NAMES \in OrgLists
  /\ pc = "main"
  /\ org_i = 0
  /\ since_date = 0
  /\ repos = <<>>
  /\ repo_counter = 0
  /\ branches = <<>>
  /\ br_i = 0
  /\ overall_activity = <<>>
  /\ activity = <<>>
  /\ members = <<>>
  /\ cursor = Null
  /\ has_next = TRUE
  /\ never_active_users = {}
  /\ rows = <<>>
  /\ reported = {}
  /\ sleeps = 0
  /\ calls = <<>>
  /\ pages = <<>>
  /\ trav = "none"
  /\ merged = FALSE
  /\ listing_failed = FALSE
  /\ ev = "start"

\* `cursor, has_next = None, True` at the head of a traversal
Enter(t) ==
  /\ cursor' = Null
  /\ has_next' = TRUE
  /\ calls' = <<>>
  /\ pages' = <<>>
  /\ trav' = t

\* a call was made and answered with data: one more turn of the loop
Turn(s, data) ==
  /\ cursor' = s.cursor
  /\ has_next' = s.has_next
  /\ calls' = Append(calls, cursor)
  /\ pages' = Append(pages, data)
  /\ trav' = trav

\* a call was made and run_query raised
Raised ==
  /\ calls' = Append(calls, cursor)
  /\ UNCHANGED <<cursor, has_next, pages, trav>>

AllMembers == {members[i] : i \in 1..Len(members)}

\* ---------------------------------------------------------------- actions
\* main: `if not ORG_NAMES: ... return`
MainStart ==
  /\ pc = "main"
  /\ pc' = IF ORG_NAMES = <<>> THEN "done" ELSE "org"
  /\ ev' = IF ORG_NAMES = <<>> THEN "no_orgs" ELSE "configured"
  /\ UNCHANGED <<listing_failed, env, ORG_NAMES, org_i, since_date, repos, repo_counter,
                 branches, br_i, overall_activity, activity, members, cursor,
                 has_next, never_active_users, rows, reported, sleeps, calls,
                 pages, trav, merged>>

\* main: `for ORG_NAME in ORG_NAMES:` takes the next organization and enters
\* get_repositories_for_org, or main ends.  What the previous organization
\* left in main's locals is never read again and is dropped here, which
\* also gives overall_activity and repo_counter the values main assigns them
\* before the repository loop.
OrgLoop ==
  /\ pc = "org"
  /\ IF org_i < Len(ORG_NAMES)
       THEN /\ org_i' = org_i + 1
            /\ pc' = "repos"
            /\ ev' = "next_org"
            /\ Enter("repos")
       ELSE /\ pc' = "done"
            /\ ev' = "end"
            /\ Enter("none")
            /\ UNCHANGED org_i
  /\ since_date' = 0
  /\ repos' = <<>>
  /\ repo_counter' = 0
  /\ branches' = <<>>
  /\ br_i' = 0
  /\ overall_activity' = <<>>
  /\ activity' = <<>>
  /\ members' = <<>>
  /\ never_active_users' = {}
  /\ rows' = <<>>
  /\ sleeps' = 0
  /\ merged' = FALSE
  /\ listing_failed' = FALSE
  /\ UNCHANGED <<env, ORG_NAMES, reported>>

\* get_repositories_for_org: one call.  A raise is caught in main (`Skipping
\* org`, continue); the last page returns to main, which reads the clock and
\* starts the repository loop.
GetReposPage ==
  /\ pc = "repos"
  /\ \E resp \in ListResponses(env, RepoPages(env, Len(repos)), Len(calls) + 1),
        now \in WallClocks :
       LET r == run_query(resp)
           s == get_repositories_for_org(repos, cursor, r.data)
       IN IF r.raised
            THEN /\ Raised
                 /\ pc' = "org"
                 /\ ev' = "org_skipped"
                 /\ UNCHANGED <<repos, since_date>>
            ELSE /\ Turn(s, r.data)
                 /\ repos' = s.list
                 /\ IF s.has_next
                      THEN /\ pc' = "repos"
                           /\ ev' = "page"
                           /\ UNCHANGED since_date
                      ELSE /\ pc' = "repo"
                           /\ ev' = "returned"
                           /\ since_date' = now
  /\ UNCHANGED <<listing_failed, env, ORG_NAMES, org_i, repo_counter, branches, br_i,
                 overall_activity, activity, members, never_active_users,
                 rows, reported, sleeps, merged>>

\* main: `for repo in repos: repo_counter += 1` and the entry of
\* get_all_branches, or, after the last repository, the entry of
\* get_all_org_members_for_org
RepoLoop ==
  /\ pc = "repo"
  /\ IF repo_counter < Len(repos)
       THEN /\ repo_counter' = repo_counter + 1
            /\ pc' = "branches"
            /\ ev' = "next_repo"
            /\ Enter("branches")
       ELSE /\ pc' = "members"
            /\ ev' = "repos_done"
            /\ Enter("members")
            /\ UNCHANGED repo_counter
  /\ branches' = <<>>
  /\ br_i' = 0
  /\ UNCHANGED <<listing_failed, env, ORG_NAMES, org_i, since_date, repos, overall_activity,
                 activity, members, never_active_users, rows, reported,
                 sleeps, merged>>

\* get_all_branches: one call.  A raise is caught by the repository's
\* `except` (the pause test follows it); an empty list is `continue`.
GetBranchesPage ==
  /\ pc = "branches"
  /\ \E resp \in ListResponses(env, BranchPages(env, Len(branches)), Len(calls) + 1) :
       LET r == run_query(resp)
           s == get_all_branches(branches, cursor, r.data)
       IN IF r.raised
            THEN /\ Raised
                 /\ pc' = "pause"
                 /\ ev' = "repo_failed"
                 /\ listing_failed' = TRUE
                 /\ UNCHANGED branches
            ELSE /\ Turn(s, r.data)
                 /\ branches' = s.list
                 /\ pc' = IF s.has_next THEN "branches" ELSE after_branches(s.list)
                 /\ ev' = IF s.has_next THEN "page"
                          ELSE IF s.list = <<>> THEN "no_branches" ELSE "returned"
                 /\ UNCHANGED listing_failed
  /\ UNCHANGED <<env, ORG_NAMES, org_i, since_date, repos, repo_counter, br_i,
                 overall_activity, activity, members, never_active_users,
                 rows, reported, sleeps, merged>>

\* main: `for br in branches:` and the entry of collect_branch_activity, or
\* the end of the `try` when the branches are used up
BranchLoop ==
  /\ pc = "branch"
  /\ IF br_i < Len(branches)
       THEN /\ br_i' = br_i + 1
            /\ pc' = "commits"
            /\ ev' = "next_branch"
            /\ Enter("commits")
       ELSE /\ pc' = "pause"
            /\ ev' = "branches_done"
            /\ Enter("none")
            /\ UNCHANGED br_i
  /\ activity' = <<>>
  /\ UNCHANGED <<listing_failed, env, ORG_NAMES, org_i, since_date, repos, repo_counter,
                 branches, overall_activity, members, never_active_users,
                 rows, reported, sleeps, merged>>

\* run_query raised inside collect_branch_activity: main's innermost `except`.
\* The dict of the call that raised is garbage; it stays readable here until
\* BranchLoop clears it.
BranchFailed ==
  /\ Raised
  /\ overall_activity' = branch_error(overall_activity, activity)
  /\ activity' = activity
  /\ pc' = "branch"
  /\ ev' = IF activity = <<>> THEN "branch_failed" ELSE "branch_failed_partial"
  /\ UNCHANGED merged

\* a call of a loop of collect_branch_activity was answered with a page
Again(s) ==
  /\ cursor' = s.cursor
  /\ has_next' = ~s.stop
  /\ calls' = Append(calls, cursor)
  /\ UNCHANGED <<pages, trav>>

\* collect_branch_activity: one call of the commit loop
CommitsPage ==
  /\ pc = "commits"
  /\ \E resp \in CommitResponses(env, Len(calls) + 1) :
       LET r == run_query(resp)
           s == commit_page(activity, cursor, r.data)
       IN IF r.raised
            THEN BranchFailed
            ELSE /\ activity' = s.activity
                 /\ IF s.stop
                      THEN /\ pc' = "issues"
                           /\ ev' = IF r.data.ref = "commit" THEN "commits_done"
                                                            ELSE "commit_absent"
                           /\ Enter("issues")
                      ELSE /\ pc' = "commits"
                           /\ ev' = "page"
                           /\ Again(s)
                 /\ UNCHANGED <<overall_activity, merged>>
  /\ UNCHANGED <<listing_failed, env, ORG_NAMES, org_i, since_date, repos, repo_counter,
                 branches, br_i, members, never_active_users, rows, reported,
                 sleeps>>

\* collect_branch_activity: one call of the issue loop
IssuesPage ==
  /\ pc = "issues"
  /\ \E resp \in ListResponses(env, ActivityPages(env), Len(calls) + 1) :
       LET r == run_query(resp)
           s == issue_page(activity, cursor, r.data)
       IN IF r.raised
            THEN BranchFailed
            ELSE /\ activity' = s.activity
                 /\ IF s.stop
                      THEN /\ pc' = "prs"
                           /\ ev' = "issues_done"
                           /\ Enter("prs")
                      ELSE /\ pc' = "issues"
                           /\ ev' = "page"
                           /\ Again(s)
                 /\ UNCHANGED <<overall_activity, merged>>
  /\ UNCHANGED <<listing_failed, env, ORG_NAMES, org_i, since_date, repos, repo_counter,
                 branches, br_i, members, never_active_users, rows, reported,
                 sleeps>>

\* collect_branch_activity: one call of the pull-request loop; after the
\* last page the dict is returned and main merges it into overall_activity
PrsPage ==
  /\ pc = "prs"
  /\ \E resp \in ListResponses(env, ActivityPages(env), Len(calls) + 1) :
       LET r == run_query(resp)
           s == pr_page(activity, cursor, r.data)
       IN IF r.raised
            THEN BranchFailed
            ELSE /\ activity' = s.activity
                 /\ IF s.stop
                      THEN /\ pc' = "branch"
                           /\ ev' = "branch_merged"
                           /\ overall_activity' = Merge(overall_activity, s.activity)
                           /\ merged' = TRUE
                           /\ Again(s)
                      ELSE /\ pc' = "prs"
                           /\ ev' = "page"
                           /\ Again(s)
                           /\ UNCHANGED <<overall_activity, merged>>
  /\ UNCHANGED <<listing_failed, env, ORG_NAMES, org_i, since_date, repos, repo_counter,
                 branches, br_i, members, never_active_users, rows, reported,
                 sleeps>>

\* main: `if repo_counter % 100 == 0: time.sleep(2)`, the last statement of
\* the repository loop's body
PauseCheck ==
  /\ pc = "pause"
  /\ pc' = "repo"
  /\ sleeps' = IF pause_due(repo_counter) THEN sleeps + 1 ELSE sleeps
  /\ ev' = IF pause_due(repo_counter) THEN "pause" ELSE "no_pause"
  /\ UNCHANGED <<listing_failed, env, ORG_NAMES, org_i, since_date, repos, repo_counter,
                 branches, br_i, overall_activity, activity, members, cursor,
                 has_next, never_active_users, rows, reported, calls, pages,
                 trav, merged>>

\* get_all_org_members_for_org: one call.  main calls it outside any `try`:
\* a raise leaves main.
GetMembersPage ==
  /\ pc = "members"
  /\ \E resp \in ListResponses(env, MemberPages(env, Len(members)), Len(calls) + 1) :
       LET r == run_query(resp)
           s == get_all_org_members_for_org(members, cursor, r.data)
       IN IF r.raised
            THEN /\ Raised
                 /\ pc' = "crashed"
                 /\ ev' = "crash"
                 /\ UNCHANGED members
            ELSE /\ Turn(s, r.data)
                 /\ members' = s.list
                 /\ pc' = IF s.has_next THEN "members" ELSE "write"
                 /\ ev' = IF s.has_next THEN "page" ELSE "returned"
  /\ UNCHANGED <<listing_failed, env, ORG_NAMES, org_i, since_date, repos, repo_counter,
                 branches, br_i, overall_activity, activity,
                 never_active_users, rows, reported, sleeps, merged>>

\* main: the never-active set and the CSV file of the organization
WriteReport ==
  /\ pc = "write"
  /\ never_active_users' = never_active(AllMembers, overall_activity)
  /\ rows' = report_rows(overall_activity, never_active_users', since_date)
  /\ reported' = reported \cup {org_i}
  /\ pc' = "org"
  /\ ev' = "written"
  /\ UNCHANGED <<listing_failed, env, ORG_NAMES, org_i, since_date, repos, repo_counter,
                 branches, br_i, overall_activity, activity, members, cursor,
                 has_next, sleeps, calls, pages, trav, merged>>

Next ==
  \/ MainStart
  \/ OrgLoop
  \/ GetReposPage
  \/ RepoLoop
  \/ GetBranchesPage
  \/ BranchLoop
  \/ CommitsPage
  \/ IssuesPage
  \/ PrsPage
  \/ PauseCheck
  \/ GetMembersPage
  \/ WriteReport

Init == InitIn("activity")
Spec == Init /\ [][Next]_vars

InitLists == InitIn("lists")
SpecLists == InitLists /\ [][Next]_vars

InitPause == InitIn("bulk")
SpecPause == InitPause /\ [][Next]_vars

\* ================================================================ claims
ListTravs == {"repos", "branches", "members"}
ListOf(t) ==
  CASE t = "repos" -> repos
    [] t = "branches" -> branches
    [] OTHER -> members
\* the states of a listing: entered, between two calls, returned or raised
InListing ==
  /\ trav \in ListTravs
  /\ ev \in {"next_org", "next_repo", "repos_done", "page", "returned",
             "no_branches", "org_skipped", "repo_failed", "crash"}
ListingRaised == ev \in {"org_skipped", "repo_failed", "crash"}
ListingReturned == ev \in {"returned", "no_branches"}
PageNodes == [i \in 1..Len(pages) |-> pages[i].nodes]

\* C1: in get_repositories_for_org, get_all_branches and
\* get_all_org_members_for_org the list is the concatenation of the nodes of
\* the pages received, in arrival order; the first call carries the null
\* cursor and every later call the endCursor of the response before it; no
\* call follows a response whose hasNextPage is false, and the function
\* returns only on such a response.
C1_Pagination ==
  InListing =>
    /\ ListOf(trav) = Flatten(PageNodes)
    /\ Len(calls) = Len(pages) + (IF ListingRaised THEN 1 ELSE 0)
    /\ \A i \in 1..Len(calls) :
         calls[i] = IF i = 1 THEN Null ELSE pages[i - 1].endCursor
    /\ \A i \in 1..(Len(calls) - 1) : pages[i].hasNextPage
    /\ ListingReturned => pages # <<>> /\ ~pages[Len(pages)].hasNextPage
    /\ (pc = trav /\ pages # <<>>) => pages[Len(pages)].hasNextPage

\* get_all_branches returned a list built from two non-empty pages, the
\* second fetched with the first's endCursor
C1_Witness ==
  /\ trav = "branches"
  /\ ev = "returned"
  /\ Len(pages) = MaxPages
  /\ \A i \in 1..Len(pages) : pages[i].nodes # <<>>
  /\ pages[1].endCursor = "c2"
  /\ branches[1] # branches[Len(branches)]

\* C2: no run_query error ends main through an unhandled exception, and main
\* ends only after the last configured organization.
C2_NoUnhandledError ==
  /\ pc # "crashed"
  /\ pc = "done" => org_i = Len(ORG_NAMES)

\* C3: once get_all_branches has failed for a repository of an organization,
\* the organization's report is still written: main does not end without it.
C3_ReportAfterListingFailure ==
  listing_failed => pc # "crashed"

\* the part of C3 that holds: a failed get_all_branches leads to the pause
\* test and from there to the loop head, the repository list untouched
C3_LaterRepositoriesKept ==
  [][(ev = "repo_failed" => pc = "pause" /\ pc' = "repo")
     /\ (pc \in {"branches", "pause"} => repos' = repos /\ repo_counter' = repo_counter)]_vars

\* C4: at the head of the repository loop, after the repository at position
\* n was handled, the pause has run once for every multiple of 100 up to n.
C4_PauseAfterEvery100 ==
  pc = "repo" => sleeps = repo_counter \div PauseEvery

\* C5: a run_query failure inside collect_branch_activity leaves
\* overall_activity as it was before the branch.
C5_FailedBranchNotMerged ==
  [][(pc \in {"commits", "issues", "prs"}
      /\ ev' \in {"branch_failed", "branch_failed_partial"})
     => overall_activity' = overall_activity]_vars

\* a branch failed after pairs were collected for it, one of them for a login
\* overall_activity does not hold
C5_Witness ==
  /\ ev = "branch_failed_partial"
  /\ \E k \in Keys(activity) : k \notin Keys(overall_activity)
  /\ overall_activity # <<>>

\* C6: when a report is written, never_active_users is the members minus the
\* keys of overall_activity, disjoint from those keys, and no login has both
\* a dated row and a never-active row.
C6_NeverActiveDisjoint ==
  ev = "written" =>
    /\ never_active_users = AllMembers \ Keys(overall_activity)
    /\ never_active_users \cap Keys(overall_activity) = {}
    /\ \A i, j \in 1..Len(rows) :
         (rows[i].active = "never-active" /\ rows[j].active # "never-active")
           => rows[i].user # rows[j].user

\* a report with a member that was seen active and a member never seen
C6_Witness ==
  /\ ev = "written"
  /\ never_active_users # {}
  /\ AllMembers \cap Keys(overall_activity) # {}
  /\ Len(rows) = Cardinality(Logins)

\* the timestamps A and B contribute for login k, and their greatest under
\* the string order the merge compares with
Contributed(A, B, k) ==
  {Get(A, x) : x \in {k} \cap Keys(A)} \cup {Get(B, x) : x \in {k} \cap Keys(B)}
Greatest(T) == CHOOSE t \in T : \A u \in T : ~StrLess(t, u)

\* C7: for the dicts A = overall_activity and B = activity of every reachable
\* state: merge(merge(A,B),B) = merge(A,B); merge(A,B) and merge(B,A) map
\* every login to the same timestamp; and that timestamp is the greatest of
\* those A and B contribute.
C7_MergeLaws ==
  LET A == overall_activity
      B == activity
      M == Merge(A, B)
  IN /\ AsMap(Merge(M, B)) = AsMap(M)
     /\ AsMap(Merge(B, A)) = AsMap(M)
     /\ Keys(M) = Keys(A) \cup Keys(B)
     /\ \A k \in Keys(M) : Get(M, k) = Greatest(Contributed(A, B, k))

\* main merged a branch whose dict held an older timestamp for a login and a
\* newer one for another login than overall_activity had
C7_Witness ==
  /\ ev = "branch_merged"
  /\ \E k \in Keys(activity) : StrLess(Get(activity, k), Get(overall_activity, k))
  /\ \E k \in Keys(activity) : Get(activity, k) = Get(overall_activity, k)
  /\ Len(activity) = Cardinality(Logins)

\* C8: the data rows are one row per entry of overall_activity, tagged "true"
\* when the entry's timestamp is at or after the cutoff and "false" when it
\* is before, then one "N/A" / "never-active" row per never-active login in
\* ascending order, and nothing else.
C8_ReportRows ==
  ev = "written" =>
    LET n == Len(overall_activity)
        never == Sorted(never_active_users)
    IN /\ Len(rows) = n + Len(never)
       /\ \A i \in 1..n :
            /\ rows[i].user = overall_activity[i][1]
            /\ rows[i].active =
                 IF Instant(overall_activity[i][2]) >= since_date THEN "true" ELSE "false"
       /\ \A i \in 1..Len(never) :
            rows[n + i] = [user |-> never[i], date |-> "N/A", active |-> "never-active"]

\* the part of C8 that holds: the same rows, the tag read off the first 19
\* characters of the timestamp taken as UTC
C8_ReportRowsByWallClock ==
  ev = "written" =>
    LET n == Len(overall_activity)
        never == Sorted(never_active_users)
    IN /\ Len(rows) = n + Len(never)
       /\ \A i \in 1..n :
            /\ rows[i].user = overall_activity[i][1]
            /\ rows[i].active =
                 IF overall_activity[i][2][1] >= since_date THEN "true" ELSE "false"
       /\ \A i \in 1..Len(never) :
            rows[n + i] = [user |-> never[i], date |-> "N/A", active |-> "never-active"]

\* C9 as stated: after a commit response without ref or target the branch's
\* dict holds no commit-derived entry.
C9_AbsentRefNoCommitEntries ==
  ev = "commit_absent" => activity = <<>>

\* C9 as amended: a commit response without ref or target adds nothing to
\* the branch's dict, which keeps the entries of the earlier commit pages;
\* nothing is raised, the issue loop is entered, and no commit query follows
\* within the branch.
C9_AbsentRefStopsCommitLoop ==
  [][/\ (pc = "commits" /\ ev' = "commit_absent")
          => /\ activity' = activity
             /\ overall_activity' = overall_activity
             /\ pc' = "issues"
             /\ calls' = <<>>
             /\ cursor' = Null
     /\ pc \in {"issues", "prs"} => pc' \in {"issues", "prs", "branch"}]_vars

\* the ref went missing on a later page: the dict holds an entry of the page
\* before
C9_Witness ==
  /\ ev = "commit_absent"
  /\ pc = "issues"
  /\ activity # <<>>

\* C10: issue and pull-request queries run only inside a branch of a
\* repository; overall_activity holds nothing until a branch's
\* collect_branch_activity has returned; and a report written with no such
\* branch lists every member as never-active.
C10_IssuesOnlyViaBranch ==
  /\ pc \in {"commits", "issues", "prs"} => br_i \in 1..Len(branches)
  /\ ~merged => overall_activity = <<>>
  /\ (ev = "written" /\ ~merged) =>
       /\ \A i \in 1..Len(rows) : rows[i].active = "never-active"
       /\ {rows[i].user : i \in 1..Len(rows)} = AllMembers

\* a report of an organization with a repository and members, none of whose
\* branches came through
C10_Witness ==
  /\ ev = "written"
  /\ ~merged
  /\ repos # <<>>
  /\ Cardinality(AllMembers) = Cardinality(Logins)

=============================================================================
